---- MODULE Spec2Model ----
(***************************************************************************)
(* Model of src/connector.py: a Fivetran connector that fetches the        *)
(* historical prices of one ticker symbol from the Financial Modeling Prep *)
(* API and yields one upsert per dated entry, then a checkpoint.           *)
(*                                                                         *)
(* schema(configuration) is a pure function.  update(configuration, state) *)
(* is a generator: the host pulls operations from it one at a time and     *)
(* applies each to the destination before pulling the next, so every yield *)
(* is a step of the state machine.                                         *)
(***************************************************************************)
EXTENDS Integers, Sequences, FiniteSets, TLC

\* ------------------------------------------------------------------------
\* Bounds of the model
\* ------------------------------------------------------------------------

\* Longest "historical" list the upstream returns.
MaxLen == 2

\* Number of syncs the host runs one after the other.
MaxRuns == 2

\* ------------------------------------------------------------------------
\* Python values: None, str, int, float (a float is kept as its decimal text,
\* the connector only passes it through)
\* ------------------------------------------------------------------------

None == [t |-> "none", s |-> "", n |-> 0]

Str(x) == [t |-> "str", s |-> x, n |-> 0]

Num(k) == [t |-> "int", s |-> "", n |-> k]

Flt(x) == [t |-> "float", s |-> x, n |-> 0]

\* The empty dict {}.
EmptyDict == [k \in {} |-> None]

\* dict.get(key, default): the value under key, the default when key is absent.
Get(d, key, default) == IF key \in DOMAIN d THEN d[key] ELSE default

\* Python truthiness, negated: `not v`.
Falsy(v) ==
    \/ v.t = "none"
    \/ (v.t = "str" /\ v.s = "")
    \/ (v.t = "int" /\ v.n = 0)

\* str(v) as an f-string renders it.
Format(v) ==
    IF v.t = "none" THEN "None"
    ELSE IF v.t = "int" THEN ToString(v.n)
    ELSE v.s

\* ------------------------------------------------------------------------
\* datetime.date arithmetic and formatting (proleptic Gregorian ordinals)
\* ------------------------------------------------------------------------

IsLeap(year) == year % 4 = 0 /\ (year % 100 # 0 \/ year % 400 = 0)

DaysInMonth(year, month) ==
    IF month = 2 THEN (IF IsLeap(year) THEN 29 ELSE 28)
    ELSE IF month \in {4, 6, 9, 11} THEN 30
    ELSE 31

\* Days of a common year before the first of month.
DaysBeforeMonthCommon(month) ==
    <<0, 31, 59, 90, 120, 151, 181, 212, 243, 273, 304, 334>>[month]

DaysBeforeMonth(year, month) ==
    DaysBeforeMonthCommon(month) + (IF month > 2 /\ IsLeap(year) THEN 1 ELSE 0)

DaysBeforeYear(year) ==
    LET y == year - 1
    IN  y * 365 + (y \div 4) - (y \div 100) + (y \div 400)

\* date.toordinal(): 0001-01-01 is day 1.
toordinal(d) == DaysBeforeYear(d.year) + DaysBeforeMonth(d.year, d.month) + d.day

\* date.fromordinal(n), by 400-, 100-, 4- and 1-year cycles.
fromordinal(ordinal) ==
    LET n0   == ordinal - 1
        n400 == n0 \div 146097
        r400 == n0 % 146097
        n100 == r400 \div 36524
        r100 == r400 % 36524
        n4   == r100 \div 1461
        r4   == r100 % 1461
        n1   == r4 \div 365
        n    == r4 % 365
        year == n400 * 400 + 1 + n100 * 100 + n4 * 4 + n1
    IN  IF n1 = 4 \/ n100 = 4
        THEN [year |-> year - 1, month |-> 12, day |-> 31]
        ELSE LET leapyear  == n1 = 3 /\ (n4 # 24 \/ n100 = 3)
                 guess     == (n + 50) \div 32
                 preceding == DaysBeforeMonthCommon(guess)
                              + (IF guess > 2 /\ leapyear THEN 1 ELSE 0)
                 month     == IF preceding > n THEN guess - 1 ELSE guess
                 before    == IF preceding > n
                              THEN preceding
                                   - (DaysInMonth(year, month))
                              ELSE preceding
             IN  [year |-> year, month |-> month, day |-> n - before + 1]

\* end_date - timedelta(days=days)
DateMinusDays(d, days) == fromordinal(toordinal(d) - days)

Pad2(k) == IF k < 10 THEN "0" \o ToString(k) ELSE ToString(k)

\* date.strftime("%Y-%m-%d") (four-digit years)
strftime(d) == ToString(d.year) \o "-" \o Pad2(d.month) \o "-" \o Pad2(d.day)

\* ------------------------------------------------------------------------
\* Program constants
\* ------------------------------------------------------------------------

\* configuration.get("days", 30)
DefaultDays == 30

\* configuration.get("symbol", "AAPL")
DefaultSymbol == Str("AAPL")

\* response.status_code != 200
HTTP_OK == 200

BaseUrl == "https://financialmodelingprep.com/api/v3/historical-price-full/"

\* ------------------------------------------------------------------------
\* Inputs of a sync: configuration, prior state, the clock, the upstream
\* ------------------------------------------------------------------------

\* configuration: a dict of optional keys.  Fivetran passes configuration
\* values as strings, so "days" can arrive as "30".
Configurations ==
    { [api_key |-> Str("demo")],
      [api_key |-> Str("demo"), symbol |-> Str("MSFT")],
      [api_key |-> Str("demo"), days |-> Num(1)],
      [symbol |-> Str("MSFT"), days |-> Num(1)],
      [api_key |-> Str("demo"), days |-> Str("30")] }

\* state: absent (None), empty, a well-formed cursor, a malformed cursor.
NoState == [present |-> FALSE, m |-> EmptyDict]

SomeState(m) == [present |-> TRUE, m |-> m]

PriorStates ==
    { NoState,
      SomeState(EmptyDict),
      SomeState([cursor |-> Str("2024-08-14")]),
      SomeState([cursor |-> Str("not-a-date")]) }

\* datetime.now().date(): a day after a leap day, and one whose 30-day
\* window starts in the year before.
Todays ==
    { [year |-> 2024, month |-> 3, day |-> 1],
      [year |-> 2024, month |-> 1, day |-> 15] }

\* Entries of "historical".  A mapping is a dict; anything else (a string, a
\* number) has no .get.
Mapping(d) == [mapping |-> TRUE, d |-> d]

NonMapping == [mapping |-> FALSE, d |-> EmptyDict]

Entries ==
    { Mapping([date |-> Str("2024-08-01"), open |-> Flt("212.3"), high |-> Flt("215.7"),
               low |-> Flt("210.1"), close |-> Flt("214.8"), volume |-> Num(64295100)]),
      Mapping([date |-> Str("2024-08-02"), open |-> Flt("215.0"), high |-> Flt("217.2"),
               low |-> Flt("214.1"), close |-> Flt("216.9"), volume |-> Num(58342600),
               adjClose |-> Flt("216.5")]),
      Mapping([date |-> Str("2024-08-01"), open |-> Flt("212.3"), high |-> Flt("215.7"),
               low |-> Flt("210.1"), close |-> Flt("214.9"), volume |-> Num(64295200)]),
      Mapping([date |-> Str("2024-08-02"), close |-> Flt("216.9")]),
      Mapping([open |-> Flt("216.2"), high |-> Flt("218.3"), low |-> Flt("215.5"),
               close |-> Flt("217.4"), volume |-> Num(52148700)]),
      Mapping([date |-> None, close |-> Flt("218.7")]),
      Mapping([date |-> Str(""), close |-> Flt("221.5")]),
      NonMapping }

RECURSIVE ListsUpTo(_)
ListsUpTo(k) ==
    IF k = 0 THEN { <<>> }
    ELSE LET shorter == ListsUpTo(k - 1)
         IN  shorter \cup { Append(l, e) : l \in { x \in shorter : Len(x) = k - 1 }, e \in Entries }

\* The decoded body.  json: "invalid" (not JSON), "null", "array", "object";
\* for an object, has: whether it has the key "historical", and then
\* islist: whether the value is a list (here: null otherwise), with its items.
Body(json, has, islist, items) ==
    [json |-> json, has |-> has, islist |-> islist, items |-> items]

Bodies ==
    { Body("invalid", FALSE, FALSE, <<>>),
      Body("null", FALSE, FALSE, <<>>),
      Body("array", FALSE, FALSE, <<>>),
      Body("object", FALSE, FALSE, <<>>),
      Body("object", TRUE, FALSE, <<>>) }
    \cup { Body("object", TRUE, TRUE, l) : l \in ListsUpTo(MaxLen) }

\* What rq.get does: raises (no connection, timeout), or returns a response.
Upstreams ==
    { [raises |-> TRUE, status_code |-> 0, body |-> Body("invalid", FALSE, FALSE, <<>>)] }
    \cup { [raises |-> FALSE, status_code |-> c, body |-> Body("invalid", FALSE, FALSE, <<>>)]
           : c \in {404, 500} }
    \cup { [raises |-> FALSE, status_code |-> HTTP_OK, body |-> b] : b \in Bodies }

\* ------------------------------------------------------------------------
\* schema(configuration)
\* ------------------------------------------------------------------------

\* schema with a primary key that also lists a price column.
schema_KeyWithClose(configuration) ==
    << [table |-> "stock_prices",
        primary_key |-> <<"date", "symbol", "close">>,
        columns |-> [symbol |-> "STRING", date |-> "UTC_DATETIME", open |-> "FLOAT",
                     high |-> "FLOAT", low |-> "FLOAT", close |-> "FLOAT",
                     volume |-> "INT"]] >>

\* schema that forgets to declare the volume column.
schema_NoVolume(configuration) ==
    << [table |-> "stock_prices",
        primary_key |-> <<"date", "symbol">>,
        columns |-> [symbol |-> "STRING", date |-> "UTC_DATETIME", open |-> "FLOAT",
                     high |-> "FLOAT", low |-> "FLOAT", close |-> "FLOAT"]] >>

schema(configuration) ==
    << [table |-> "stock_prices",
        primary_key |-> <<"date", "symbol">>,
        columns |-> [symbol |-> "STRING", date |-> "UTC_DATETIME", open |-> "FLOAT",
                     high |-> "FLOAT", low |-> "FLOAT", close |-> "FLOAT",
                     volume |-> "INT"]] >>

\* ------------------------------------------------------------------------
\* update(configuration, state)
\* ------------------------------------------------------------------------

NoRequest == [url |-> "", from |-> "", to |-> "", apikey |-> None]

\* Params resuming from the cursor of the prior state when it has one.
Params_FromCursor(configuration, state, today) ==
    LET api_key == Get(configuration, "api_key", None)
        symbol  == Get(configuration, "symbol", DefaultSymbol)
        days    == Get(configuration, "days", Num(DefaultDays))
    IN  IF days.t # "int"
        THEN [ok |-> FALSE, symbol |-> symbol, request |-> NoRequest]
        ELSE [ok |-> TRUE, symbol |-> symbol,
              request |-> [url    |-> BaseUrl \o Format(symbol),
                           from   |-> IF state.present /\ "cursor" \in DOMAIN state.m
                                      THEN state.m.cursor.s
                                      ELSE strftime(DateMinusDays(today, days.n)),
                           to     |-> strftime(today),
                           apikey |-> api_key]]

\* Configuration values, the date range and the request.  ok is FALSE when
\* timedelta(days=days) raises TypeError (days is not a number).
Params(configuration, state, today) ==
    LET api_key == Get(configuration, "api_key", None)
        symbol  == Get(configuration, "symbol", DefaultSymbol)
        days    == Get(configuration, "days", Num(DefaultDays))
    IN  IF days.t # "int"
        THEN [ok |-> FALSE, symbol |-> symbol, request |-> NoRequest]
        ELSE [ok |-> TRUE, symbol |-> symbol,
              request |-> [url    |-> BaseUrl \o Format(symbol),
                           from   |-> strftime(DateMinusDays(today, days.n)),
                           to     |-> strftime(today),
                           apikey |-> api_key]]

\* From the GET to the head of the loop: where the generator goes next and
\* the exception it raises, if any.
FetchAndParse(upstream) ==
    LET body == upstream.body
        stop(pc, error, items) == [pc |-> pc, error |-> error, historical_data |-> items]
    IN  IF upstream.raises THEN stop("raised", "RequestException", <<>>)
        ELSE IF upstream.status_code # HTTP_OK THEN stop("returned", "", <<>>)
        ELSE IF body.json = "invalid" THEN stop("raised", "JSONDecodeError", <<>>)
        ELSE IF body.json = "null" THEN stop("raised", "TypeError", <<>>)
        ELSE IF body.json = "array" \/ ~body.has THEN stop("returned", "", <<>>)
        ELSE IF ~body.islist THEN stop("raised", "TypeError", <<>>)
        ELSE stop("loop", "", body.items)

\* Skip that tests `date_str is None` instead of truthiness.
Skip_NoneOnly(date_str) == date_str.t = "none"

\* `if not date_str: continue`
Skip(date_str) == Falsy(date_str)

\* Row with the symbol hardcoded instead of read from the configuration.
Row_HardcodedSymbol(symbol, price_data) ==
    [symbol |-> DefaultSymbol,
     date   |-> Get(price_data, "date", None),
     open   |-> Get(price_data, "open", None),
     high   |-> Get(price_data, "high", None),
     low    |-> Get(price_data, "low", None),
     close  |-> Get(price_data, "close", None),
     volume |-> Get(price_data, "volume", None)]

\* The row of one entry.
Row(symbol, price_data) ==
    [symbol |-> symbol,
     date   |-> Get(price_data, "date", None),
     open   |-> Get(price_data, "open", None),
     high   |-> Get(price_data, "high", None),
     low    |-> Get(price_data, "low", None),
     close  |-> Get(price_data, "close", None),
     volume |-> Get(price_data, "volume", None)]

Upsert(table, data) == [op |-> "upsert", table |-> table, data |-> data, state |-> EmptyDict]

Checkpoint(st) == [op |-> "checkpoint", table |-> "", data |-> EmptyDict, state |-> st]

\* A checkpoint state that carries a cursor.
CheckpointState_Cursor == [cursor |-> Str("2024-08-02")]

\* The state of op.checkpoint(state={}).
CheckpointState == EmptyDict

\* YieldUpsert with the checkpoint yielded inside the loop, after each upsert.
YieldUpsert_ThenCheckpoint(ops, symbol, price_data) ==
    Append(Append(ops, Upsert("stock_prices", Row(symbol, price_data))),
           Checkpoint(CheckpointState))

\* yield op.upsert(table="stock_prices", data={...})
YieldUpsert(ops, symbol, price_data) ==
    Append(ops, Upsert("stock_prices", Row(symbol, price_data)))

\* yield op.checkpoint(state={})
YieldCheckpoint(ops) == Append(ops, Checkpoint(CheckpointState))

\* ------------------------------------------------------------------------
\* The host: it applies each operation it pulls from the generator
\* ------------------------------------------------------------------------

\* The primary key columns the destination table was declared with.
KeyColumns(declaration, table) ==
    UNION { { d.primary_key[k] : k \in 1..Len(d.primary_key) }
            : d \in { declaration[j] : j \in { j \in 1..Len(declaration) : declaration[j].table = table } } }

\* Replace-or-insert of a row, keyed by the declared primary key.
ApplyUpsert(rows, data, key) ==
    { r \in rows : \E c \in key : r[c] # data[c] } \cup { data }

\* The destination and the stored state after the host applied ops[from..].
RECURSIVE HostApply(_, _, _, _)
HostApply(dest, declaration, ops, from) ==
    IF from > Len(ops) THEN dest
    ELSE LET o == ops[from]
             next == IF o.op = "upsert"
                     THEN [dest EXCEPT !.rows = ApplyUpsert(dest.rows, o.data,
                                                            KeyColumns(declaration, o.table))]
                     ELSE [dest EXCEPT !.state = SomeState(o.state)]
         IN  HostApply(next, declaration, ops, from + 1)

\* ------------------------------------------------------------------------
\* State
\* ------------------------------------------------------------------------

VARIABLES
    configuration,    \* update's and schema's argument
    state,            \* update's argument: the state the host passes in
    today,            \* datetime.now().date()
    upstream,         \* what the API does to this sync's GET
    declaration,      \* what schema(configuration) returned to the host
    pc,               \* "new", "start", "loop", "done"
    symbol,           \* local of update
    request,          \* the GET update issued (NoRequest before it)
    historical_data,  \* local of update
    i,                \* position of the for loop in historical_data
    ops,              \* the operations this run has yielded
    outcome,          \* "running", "completed" (generator exhausted), "raised"
    error,            \* the exception that left update, "" if none
    dest,             \* the host's side: rows of stock_prices, stored state
    runs,             \* syncs started
    prev              \* the previous sync, as it ended

vars == <<configuration, state, today, upstream, declaration, pc, symbol, request,
          historical_data, i, ops, outcome, error, dest, runs, prev>>

inputs == <<configuration, today, upstream>>

NoPrev ==
    [has |-> FALSE, state |-> NoState, request |-> NoRequest, ops |-> <<>>,
     outcome |-> "", error |-> "", rows |-> {}]

Init ==
    /\ configuration \in Configurations
    /\ state \in PriorStates
    /\ today \in Todays
    /\ upstream \in Upstreams
    /\ declaration = <<>>
    /\ pc = "new"
    /\ symbol = None
    /\ request = NoRequest
    /\ historical_data = <<>>
    /\ i = 1
    /\ ops = <<>>
    /\ outcome = "running"
    /\ error = ""
    /\ dest = [rows |-> {}, state |-> state]
    /\ runs = 1
    /\ prev = NoPrev

\* The host asks for the schema before the first sync.
CallSchema ==
    /\ pc = "new"
    /\ declaration' = schema(configuration)
    /\ pc' = "start"
    /\ UNCHANGED <<inputs, state, symbol, request, historical_data, i, ops, outcome,
                   error, dest, runs, prev>>

\* The first pull: update runs from its first line to the first yield, a return
\* or an exception.
Begin ==
    /\ pc = "start"
    /\ LET p == Params(configuration, state, today)
           f == FetchAndParse(upstream)
       IN  /\ symbol' = p.symbol
           /\ request' = p.request
           /\ IF ~p.ok
              THEN /\ pc' = "done"
                   /\ outcome' = "raised"
                   /\ error' = "TypeError"
                   /\ historical_data' = <<>>
              ELSE /\ pc' = IF f.pc = "loop" THEN "loop" ELSE "done"
                   /\ outcome' = IF f.pc = "loop" THEN "running"
                                 ELSE IF f.pc = "raised" THEN "raised" ELSE "completed"
                   /\ error' = f.error
                   /\ historical_data' = f.historical_data
    /\ i' = 1
    /\ UNCHANGED <<inputs, state, declaration, ops, dest, runs, prev>>

\* One turn of `for price_data in historical_data`.
Iterate ==
    /\ pc = "loop"
    /\ i <= Len(historical_data)
    /\ LET price_data == historical_data[i]
       IN  IF ~price_data.mapping
           THEN \* price_data.get raises AttributeError
                /\ pc' = "done"
                /\ outcome' = "raised"
                /\ error' = "AttributeError"
                /\ UNCHANGED <<i, ops, dest>>
           ELSE IF Skip(Get(price_data.d, "date", None))
           THEN /\ i' = i + 1
                /\ UNCHANGED <<pc, outcome, error, ops, dest>>
           ELSE /\ ops' = YieldUpsert(ops, symbol, price_data.d)
                /\ dest' = HostApply(dest, declaration, ops', Len(ops) + 1)
                /\ i' = i + 1
                /\ UNCHANGED <<pc, outcome, error>>
    /\ UNCHANGED <<inputs, state, declaration, symbol, request, historical_data, runs, prev>>

\* The loop is exhausted: the checkpoint is yielded and update returns.
Finish ==
    /\ pc = "loop"
    /\ i > Len(historical_data)
    /\ ops' = YieldCheckpoint(ops)
    /\ dest' = HostApply(dest, declaration, ops', Len(ops) + 1)
    /\ pc' = "done"
    /\ outcome' = "completed"
    /\ UNCHANGED <<inputs, state, declaration, symbol, request, historical_data, i, error,
                   runs, prev>>

\* The next sync: same configuration, clock and upstream data; the host
\* passes the state it stored, or one an operator has set.
StartRun ==
    /\ pc = "done"
    /\ runs < MaxRuns
    /\ prev' = [has |-> TRUE, state |-> state, request |-> request, ops |-> ops,
                outcome |-> outcome, error |-> error, rows |-> dest.rows]
    /\ state' \in PriorStates \cup {dest.state}
    /\ runs' = runs + 1
    /\ pc' = "start"
    /\ symbol' = None
    /\ request' = NoRequest
    /\ historical_data' = <<>>
    /\ i' = 1
    /\ ops' = <<>>
    /\ outcome' = "running"
    /\ error' = ""
    /\ UNCHANGED <<inputs, declaration, dest>>

Next == CallSchema \/ Begin \/ Iterate \/ Finish \/ StartRun

Spec == Init /\ [][Next]_vars

\* ------------------------------------------------------------------------
\* Vocabulary of the properties
\* ------------------------------------------------------------------------

IsUpsert(o) == o.op = "upsert"

IsCheckpoint(o) == o.op = "checkpoint"

UpsertsOf(s) == SelectSeq(s, IsUpsert)

CheckpointsOf(s) == SelectSeq(s, IsCheckpoint)

\* The GET was issued and a response came back.
GotResponse == request # NoRequest /\ ~upstream.raises

\* The response is a 200 whose body is an object with a "historical" list.
HistoricalList ==
    /\ GotResponse
    /\ upstream.status_code = HTTP_OK
    /\ upstream.body.json = "object"
    /\ upstream.body.has
    /\ upstream.body.islist

\* The response is a 200 whose body decodes but has no "historical".
LacksHistorical ==
    /\ GotResponse
    /\ upstream.status_code = HTTP_OK
    /\ \/ upstream.body.json = "array"
       \/ (upstream.body.json = "object" /\ ~upstream.body.has)

AllMappings(items) == \A k \in 1..Len(items) : items[k].mapping

\* An entry that has a date: the key is there and holds a non-empty string.
HasDate(e) ==
    /\ e.mapping
    /\ "date" \in DOMAIN e.d
    /\ e.d.date.t = "str"
    /\ e.d.date.s # ""

\* The symbol the configuration asks for.
ConfiguredSymbol ==
    IF "symbol" \in DOMAIN configuration THEN configuration.symbol ELSE Str("AAPL")

PriceFields == {"open", "high", "low", "close", "volume"}

\* Row data carries symbol sym, entry e's date and e's price fields unchanged
\* (None for a field e does not have).
CarriesEntry(data, sym, e) ==
    /\ DOMAIN data = {"symbol", "date"} \cup PriceFields
    /\ data.symbol = sym
    /\ data.date = e.d.date
    /\ \A f \in PriceFields :
          data[f] = (IF f \in DOMAIN e.d THEN e.d[f] ELSE None)

\* The (date, symbol) keys of the upserts of s.
KeysOf(s) == { <<s[k].data.date, s[k].data.symbol>> : k \in { j \in 1..Len(s) : IsUpsert(s[j]) } }

\* ------------------------------------------------------------------------
\* C1
\* ------------------------------------------------------------------------

\* C1: a run whose GET returns a status other than 200 emits no upsert,
\* completes without error and still emits a checkpoint.
C1_FailedFetchStillCheckpoints ==
    (pc = "done" /\ GotResponse /\ upstream.status_code # HTTP_OK)
        => /\ UpsertsOf(ops) = <<>>
           /\ outcome = "completed"
           /\ error = ""
           /\ CheckpointsOf(ops) # <<>>

\* ------------------------------------------------------------------------
\* C2
\* ------------------------------------------------------------------------

\* C2: whatever the upstream outcome (a 200 with a "historical" list of
\* mappings, a 200 whose body lacks "historical", a non-200), a run emits
\* exactly one checkpoint: never more than one on the way, one at the end.
C2_ExactlyOneCheckpoint ==
    /\ Len(CheckpointsOf(ops)) <= 1
    /\ ( /\ pc = "done"
         /\ \/ (HistoricalList /\ AllMappings(upstream.body.items))
            \/ LacksHistorical
            \/ (GotResponse /\ upstream.status_code # HTTP_OK) )
        => Len(CheckpointsOf(ops)) = 1

\* ------------------------------------------------------------------------
\* C3
\* ------------------------------------------------------------------------

\* C3: no failure while fetching or parsing escapes update(): once the GET
\* has been attempted, the run never ends by raising.
C3_NoFetchOrParseErrorEscapes ==
    request # NoRequest => outcome # "raised"

\* ------------------------------------------------------------------------
\* C4
\* ------------------------------------------------------------------------

\* C4: a checkpoint is the last operation of the run's sequence: no
\* operation follows it, and a run that went through the loop to its end
\* ends on the checkpoint, every upsert before it.
C4_CheckpointIsLast ==
    /\ \A k \in 1..Len(ops) : IsCheckpoint(ops[k]) => k = Len(ops)
    /\ (pc = "done" /\ outcome = "completed" /\ HistoricalList)
          => /\ ops # <<>>
             /\ IsCheckpoint(ops[Len(ops)])
             /\ \A k \in 1..(Len(ops) - 1) : IsUpsert(ops[k])

\* C4 happens: a finished run with two upserts and then the checkpoint.
C4_Witness ==
    /\ pc = "done"
    /\ Len(ops) = 3
    /\ IsUpsert(ops[1])
    /\ IsUpsert(ops[2])
    /\ IsCheckpoint(ops[3])

\* ------------------------------------------------------------------------
\* C5
\* ------------------------------------------------------------------------

\* The entries with a date among the first n of items, in order.
RECURSIVE DatedAmong(_, _)
DatedAmong(items, n) ==
    IF n = 0 THEN <<>>
    ELSE IF HasDate(items[n]) THEN Append(DatedAmong(items, n - 1), items[n])
    ELSE DatedAmong(items, n - 1)

\* C5: for a 200 with a "historical" list, at every point of the loop the
\* upserts emitted so far are, in order, one per entry with a date among the
\* entries passed, each to "stock_prices" with the configured symbol, the
\* entry's date and its price fields unchanged; a run that completes has
\* passed every entry.
C5_OneUpsertPerDatedEntry ==
    (pc \in {"loop", "done"} /\ HistoricalList)
        => LET items  == upstream.body.items
               dated  == DatedAmong(items, i - 1)
               ups    == UpsertsOf(ops)
           IN  /\ Len(ups) = Len(dated)
               /\ \A k \in 1..Len(ups) :
                     /\ ups[k].table = "stock_prices"
                     /\ CarriesEntry(ups[k].data, ConfiguredSymbol, dated[k])
               /\ (pc = "done" /\ outcome = "completed") => i = Len(items) + 1

\* C5 happens: a completed run over two dated entries, one of them lacking
\* price fields, with a configured symbol.
C5_Witness ==
    /\ pc = "done"
    /\ outcome = "completed"
    /\ HistoricalList
    /\ Len(UpsertsOf(ops)) = 2
    /\ "symbol" \in DOMAIN configuration
    /\ \E k \in 1..2 : "volume" \notin DOMAIN upstream.body.items[k].d
    /\ \E k \in 1..2 : "volume" \in DOMAIN upstream.body.items[k].d

\* ------------------------------------------------------------------------
\* C6
\* ------------------------------------------------------------------------

\* The date of entry e is missing: absent, null or empty.
MissingDate(e) ==
    /\ e.mapping
    /\ \/ "date" \notin DOMAIN e.d
       \/ e.d.date.t = "none"
       \/ (e.d.date.t = "str" /\ e.d.date.s = "")

\* C6: over a "historical" list of mappings, entries whose date is missing
\* produce no upsert and no error and do not stop the run: the run completes,
\* no upsert carries a missing date, every entry with a date has its upsert,
\* and the checkpoint is emitted.
C6_MissingDateIsSkipped ==
    (pc = "done" /\ HistoricalList /\ AllMappings(upstream.body.items))
        => LET items == upstream.body.items
               ups   == UpsertsOf(ops)
           IN  /\ outcome = "completed"
               /\ error = ""
               /\ \A k \in 1..Len(ups) :
                     ups[k].data.date.t = "str" /\ ups[k].data.date.s # ""
               /\ Len(ups) = Cardinality({ k \in 1..Len(items) : ~MissingDate(items[k]) })
               /\ \A k \in 1..Len(items) :
                     HasDate(items[k])
                        => \E j \in 1..Len(ups) :
                              CarriesEntry(ups[j].data, ConfiguredSymbol, items[k])
               /\ Len(CheckpointsOf(ops)) = 1

\* C6 happens: a finished run whose first entry has an empty date and whose
\* second has one; the second's upsert and the checkpoint were emitted.
C6_Witness ==
    /\ pc = "done"
    /\ HistoricalList
    /\ Len(upstream.body.items) = 2
    /\ MissingDate(upstream.body.items[1])
    /\ "date" \in DOMAIN upstream.body.items[1].d
    /\ upstream.body.items[1].d.date = Str("")
    /\ HasDate(upstream.body.items[2])
    /\ Len(ops) = 2

\* ------------------------------------------------------------------------
\* C7
\* ------------------------------------------------------------------------

\* C7: a second run with the same configuration, window and upstream data
\* emits the same (date, symbol) keys as the first, leaves the destination
\* table as the first left it, and the table never holds two rows with the
\* same (date, symbol).
C7_IdempotentUnderUpsert ==
    /\ \A r1 \in dest.rows : \A r2 \in dest.rows :
          (r1.date = r2.date /\ r1.symbol = r2.symbol) => r1 = r2
    /\ (pc = "done" /\ prev.has)
          => /\ KeysOf(ops) = KeysOf(prev.ops)
             /\ dest.rows = prev.rows

\* C7 happens: the second run has ended after re-emitting two upserts of one
\* key with different prices, and the table holds that key.
C7_Witness ==
    /\ pc = "done"
    /\ prev.has
    /\ Len(UpsertsOf(ops)) = 2
    /\ Cardinality(KeysOf(ops)) = 1
    /\ ops[1].data # ops[2].data
    /\ Cardinality(dest.rows) = 1

\* ------------------------------------------------------------------------
\* C8
\* ------------------------------------------------------------------------

KnownDates == <<"2024-08-01", "2024-08-02", "2024-08-14">>

\* Date text a is not later than date text b.
NotLater(a, b) ==
    \E ka \in 1..Len(KnownDates) : \E kb \in 1..Len(KnownDates) :
        KnownDates[ka] = a /\ KnownDates[kb] = b /\ ka <= kb

\* C8 as claimed: the checkpoint is a mapping with exactly one cursor key
\* whose value is the last date of the sweep, and a later run's cursor is not
\* earlier than the one before.
C8_CheckpointCarriesCursor ==
    \A k \in 1..Len(ops) :
        IsCheckpoint(ops[k])
            => /\ Cardinality(DOMAIN ops[k].state) = 1
               /\ LET cursor == ops[k].state[CHOOSE key \in DOMAIN ops[k].state : TRUE]
                      ups    == UpsertsOf(ops)
                  IN  /\ ups # <<>> => cursor = ups[Len(ups)].data.date
                      /\ \A j \in 1..Len(prev.ops) :
                            IsCheckpoint(prev.ops[j])
                               => \A key \in DOMAIN prev.ops[j].state :
                                     NotLater(prev.ops[j].state[key].s, cursor.s)

\* C8 as amended: every checkpoint carries the empty mapping, with no cursor
\* key; once a run has checkpointed, the state the host stores is the empty
\* mapping and stays so.
C8_CheckpointIsEmpty ==
    /\ \A k \in 1..Len(ops) : IsCheckpoint(ops[k]) => ops[k].state = EmptyDict
    /\ (CheckpointsOf(ops) # <<>> \/ CheckpointsOf(prev.ops) # <<>>)
          => dest.state = SomeState(EmptyDict)

\* C8 happens: a second run has checkpointed after a first one that did,
\* the first having started from a stored cursor.
C8_Witness ==
    /\ pc = "done"
    /\ prev.has
    /\ prev.state = SomeState([cursor |-> Str("2024-08-14")])
    /\ CheckpointsOf(prev.ops) # <<>>
    /\ CheckpointsOf(ops) # <<>>
    /\ UpsertsOf(ops) # <<>>

\* ------------------------------------------------------------------------
\* C9
\* ------------------------------------------------------------------------

ColumnNames == {"symbol", "date", "open", "high", "low", "close", "volume"}

\* The declaration is one table, stock_prices, keyed by (date, symbol), with
\* the seven columns.
IsStockPricesDeclaration(decl) ==
    /\ Len(decl) = 1
    /\ decl[1].table = "stock_prices"
    /\ decl[1].primary_key = <<"date", "symbol">>
    /\ DOMAIN decl[1].columns = ColumnNames

\* C9: schema returns the same declaration for every configuration, the one
\* above; calling it issues no request and emits nothing; every field of an
\* emitted upsert row is a declared column of the table it goes to.
C9_SchemaIsFixedAndCoversRows ==
    /\ \A c1 \in Configurations : \A c2 \in Configurations : schema(c1) = schema(c2)
    /\ declaration # <<>>
          => /\ IsStockPricesDeclaration(declaration)
             /\ \A k \in 1..Len(ops) :
                   IsUpsert(ops[k])
                      => /\ ops[k].table = declaration[1].table
                         /\ DOMAIN ops[k].data \subseteq DOMAIN declaration[1].columns
    /\ (pc = "start" /\ runs = 1)
          => (request = NoRequest /\ ops = <<>> /\ dest.rows = {})

\* C9 happens: the schema was declared for a configuration with a symbol and
\* days, and a run has emitted an upsert built from an entry with extra fields.
C9_Witness ==
    /\ declaration # <<>>
    /\ DOMAIN configuration = {"symbol", "days"}
    /\ \E k \in 1..Len(ops) : IsUpsert(ops[k])
    /\ HistoricalList
    /\ \E k \in 1..Len(upstream.body.items) : "adjClose" \in DOMAIN upstream.body.items[k].d

\* ------------------------------------------------------------------------
\* C10
\* ------------------------------------------------------------------------

MonthLength(year, month) ==
    IF month \in {1, 3, 5, 7, 8, 10, 12} THEN 31
    ELSE IF month # 2 THEN 30
    ELSE IF year % 400 = 0 \/ (year % 4 = 0 /\ year % 100 # 0) THEN 29
    ELSE 28

\* The calendar day before d.
DayBefore(d) ==
    IF d.day > 1 THEN [d EXCEPT !.day = d.day - 1]
    ELSE IF d.month > 1
         THEN [year |-> d.year, month |-> d.month - 1, day |-> MonthLength(d.year, d.month - 1)]
         ELSE [year |-> d.year - 1, month |-> 12, day |-> 31]

\* The day n days before d, one day at a time.
RECURSIVE DaysBack(_, _)
DaysBack(d, n) == IF n = 0 THEN d ELSE DaysBack(DayBefore(d), n - 1)

\* The lookback the configuration asks for.
ConfiguredDays == IF "days" \in DOMAIN configuration THEN configuration.days.n ELSE 30

\* The run can only have raised for a reason found in the configuration or
\* the upstream.
RaiseExplainedByInputs ==
    \/ ("days" \in DOMAIN configuration /\ configuration.days.t # "int")
    \/ upstream.raises
    \/ upstream.body.json \in {"invalid", "null"}
    \/ (upstream.body.has /\ ~upstream.body.islist)
    \/ ~AllMappings(upstream.body.items)

\* C10: the prior state never influences a run.  The GET, when issued, is
\* from = today minus days (30 by default), to = today; a run that follows
\* another with the same configuration, clock and upstream ends with the same
\* request, the same operations and the same outcome whatever the two prior
\* states were; and no run raises because of its prior state.
C10_PriorStateIsIgnored ==
    /\ request # NoRequest
          => /\ request.to = strftime(today)
             /\ request.from = strftime(DaysBack(today, ConfiguredDays))
    /\ (pc = "done" /\ prev.has)
          => /\ request = prev.request
             /\ ops = prev.ops
             /\ outcome = prev.outcome
             /\ error = prev.error
    /\ outcome = "raised" => RaiseExplainedByInputs

\* C10 happens: a run from a malformed cursor has ended after one from a
\* well-formed cursor, both having issued the GET with the default lookback
\* and emitted operations.
C10_Witness ==
    /\ pc = "done"
    /\ prev.has
    /\ prev.state = SomeState([cursor |-> Str("2024-08-14")])
    /\ state = SomeState([cursor |-> Str("not-a-date")])
    /\ "days" \notin DOMAIN configuration
    /\ request # NoRequest
    /\ outcome = "completed"
    /\ Len(ops) >= 2

====
